---- MODULE Spec2Model ----
(***************************************************************************)
(* Model of azext_aks_preview/aks_nubesgen/commands.py: `az aks nubesgen`. *)
(* One run of aks_nubesgen is a sequence of steps, one per function of the *)
(* module that touches the outside world (directory search, `<binary>      *)
(* version`, the yes/no prompts, the HTTP download, the `create` child).   *)
(*                                                                         *)
(* Python values that may be None are records [isNone, s]; strings that    *)
(* the code takes apart (keys, values, child output) are sequences of      *)
(* one-character strings; a filesystem path is the sequence of its         *)
(* components, "~" standing for the home directory until expanded.         *)
(***************************************************************************)
EXTENDS Integers, Sequences, FiniteSets, TLC

VARIABLES
    download_path,         \* argument of aks_nubesgen (None, "" or a directory)
    kwargs,                \* the keyword options of _pre_run, in order: <<key, value>> pairs
    env_PATH,              \* os.environ['PATH']: None when unset, else its ':'-separated entries
    system,                \* platform.system()
    disk0,                 \* the filesystem when the run started: [dirs, files]
    dirs,                  \* directories that exist
    files,                 \* existing files: path -> [content, mode]
    pc,                    \* where the run is
    nubesgen_binary_path,  \* local of _binary_pre_check (line 90)
    dl_arg,                \* the download_path argument _download_binary is entered with
    file_path,             \* local of _pre_run (line 46) / binary_path of _run
    arguments,             \* the built argument list
    run_successful,        \* local of aks_nubesgen (line 37)
    result,                \* "running", "returned" or "raised"
    error,                 \* the exception that ended the run
    searches,              \* candidate lists probed by _get_existing_path
    versionRuns,           \* every `<path> version` child: [path, stdout, stderr, result]
    prompts,               \* every prompt_y_n: [msg, answer, response]
    http,                  \* every requests.get: [url, status]
    downloaded,            \* paths returned by a successful _download_binary
    popen,                 \* every subprocess.Popen of _run: [bin, command, args]
    exit_codes             \* exit codes of the children _run waited for

vars == <<download_path, kwargs, env_PATH, system, disk0, dirs, files, pc,
          nubesgen_binary_path, dl_arg, file_path, arguments, run_successful,
          result, error, searches, versionRuns, prompts, http, downloaded,
          popen, exit_codes>>

(***************************************************************************)
(* Bounds of the model.                                                    *)
(***************************************************************************)
\* longest standard output of the `version` child that is enumerated
MaxOut == 4
\* most key/value pairs of an enumerated option mapping
MaxPairs == 3

(***************************************************************************)
(* Python values.                                                          *)
(***************************************************************************)
None == [isNone |-> TRUE, s |-> <<>>]

Str(x) == [isNone |-> FALSE, s |-> x]

\* Python truthiness of an Optional[str]: None and "" are falsy
Truthy(v) == ~v.isNone /\ Len(v.s) > 0

SeqsUpTo(S, n) == UNION {[1..k -> S] : k \in 0..n}

Last(s) == s[Len(s)]

(***************************************************************************)
(* _build_args (lines 72-80).                                              *)
(***************************************************************************)
\* key.replace('_', '-')
Replace(key) == [i \in 1..Len(key) |-> IF key[i] = "_" THEN "-" ELSE key[i]]

\* f'--{arg}={val}'
Token(arg, val) == <<"-", "-">> \o arg \o <<"=">> \o val.s

RECURSIVE ArgsList(_)
ArgsList(items) ==
    IF items = <<>> THEN <<>>
    ELSE LET key == items[1][1]
             val == items[1][2]
             arg == Replace(key)
         IN  (IF Truthy(val) THEN <<Token(arg, val)>> ELSE <<>>)
                 \o ArgsList(Tail(items))

RECURSIVE ArgsListKeepEmpty(_)
ArgsListKeepEmpty(items) ==
    IF items = <<>> THEN <<>>
    ELSE LET key == items[1][1]
             val == items[1][2]
             arg == Replace(key)
         IN  (IF ~val.isNone THEN <<Token(arg, val)>> ELSE <<>>)
                 \o ArgsListKeepEmpty(Tail(items))

\* mutant of _build_args: tests `val is not None` instead of `val`
BuildArgsKeepEmpty(args_dict, kw) ==
    ArgsListKeepEmpty(IF args_dict = <<>> THEN kw ELSE args_dict)

\* _build_args(args_dict, **kwargs): an empty args_dict is replaced by kwargs
BuildArgs(args_dict, kw) ==
    ArgsList(IF args_dict = <<>> THEN kw ELSE args_dict)

(***************************************************************************)
(* _is_latest_version (lines 112-120), on the decoded output of the child. *)
(***************************************************************************)
\* CONST_NUBEGEN_CLI_VERSION, imported from azext_aks_preview._consts
CONST_NUBEGEN_CLI_VERSION == <<"v", "1">>

\* the characters str.strip() and str.split() treat as whitespace
IsSpace(c) == c \in {" ", "\t", "\n", "\r"}

\* s.split('\n')[0]
RECURSIVE FirstLine(_)
FirstLine(s) ==
    IF s = <<>> \/ s[1] = "\n" THEN <<>>
    ELSE <<s[1]>> \o FirstLine(Tail(s))

\* s.split(): the maximal runs of non-whitespace characters, in order
RECURSIVE SplitWs(_, _)
SplitWs(s, cur) ==
    IF s = <<>> THEN (IF cur = <<>> THEN <<>> ELSE <<cur>>)
    ELSE IF IsSpace(s[1])
         THEN (IF cur = <<>> THEN <<>> ELSE <<cur>>) \o SplitWs(Tail(s), <<>>)
         ELSE SplitWs(Tail(s), Append(cur, s[1]))

\* s.strip(): leading and trailing whitespace removed
RECURSIVE LStrip(_)
LStrip(s) == IF s # <<>> /\ IsSpace(s[1]) THEN LStrip(Tail(s)) ELSE s

RECURSIVE RStrip(_)
RStrip(s) ==
    IF s # <<>> /\ IsSpace(Last(s)) THEN RStrip(SubSeq(s, 1, Len(s) - 1)) ELSE s

Strip(s) == RStrip(LStrip(s))

\* stdout.decode().split('\n')[0].strip().split()
VersionTokens(stdout) == SplitWs(Strip(FirstLine(stdout)), <<>>)

\* mutant of _is_latest_version: never looks at the error stream
IsLatestVersionIgnoreStderr(stdout, stderr) ==
    LET tokens == VersionTokens(stdout)
    IN  IF tokens = <<>> THEN "IndexError"
        ELSE IF CONST_NUBEGEN_CLI_VERSION = Last(tokens) THEN "True" ELSE "False"

\* "True" / "False", or "IndexError" when the first line has no token:
\* [-1] of the empty list (line 119).
IsLatestVersion(stdout, stderr) ==
    IF stderr # <<>> THEN "False"
    ELSE LET tokens == VersionTokens(stdout)
         IN  IF tokens = <<>> THEN "IndexError"
             ELSE IF CONST_NUBEGEN_CLI_VERSION = Last(tokens) THEN "True" ELSE "False"

(***************************************************************************)
(* Paths, platform and filesystem.                                         *)
(***************************************************************************)
\* the home directory: Path.home() and the expansion of "~"
Home == <<"home", "u">>

\* os.path.expanduser
Expanduser(p) == IF p # <<>> /\ p[1] = "~" THEN Home \o Tail(p) ELSE p

\* the default of _download_binary's parameter (line 165)
DefaultDownloadPath == <<"~", ".nubesgen">>

\* str.lower() of the platform names
Lower(name) ==
    CASE name = "Darwin" -> "darwin"
      [] name = "Linux" -> "linux"
      [] name = "Windows" -> "windows"
      [] OTHER -> name

\* _get_filename (lines 125-129)
GetFilename(sys) ==
    LET operating_system == Lower(sys)
    IN  IF operating_system = "darwin" THEN "nubesgen-cli-macos"
        ELSE "nubesgen-cli-" \o operating_system

\* os.path.exists
Exists(p) == p \in dirs \/ p \in DOMAIN files

\* whether the kernel can exec the file at p
Executable(p) == p \in DOMAIN files /\ files[p].mode = "0o755"

\* a directory and all its ancestors: Path.mkdir(parents=True)
Ancestors(p) == {SubSeq(p, 1, k) : k \in 1..Len(p)}

\* _get_potential_paths (lines 154-160); None stands for the KeyError of
\* os.environ['PATH'] when the variable is unset
GetPotentialPaths ==
    IF env_PATH.isNone THEN None
    ELSE Str(Append(env_PATH.s, Home \o <<".nubesgen">>))

\* the loop of _get_existing_path (lines 145-150): first existing candidate
RECURSIVE FirstExisting(_, _)
FirstExisting(paths, filename) ==
    IF paths = <<>> THEN None
    ELSE LET binary_file_path == Append(paths[1], filename)
         IN  IF Exists(binary_file_path) THEN Str(binary_file_path)
             ELSE FirstExisting(Tail(paths), filename)

\* knack's prompt_y_n(msg, default): no input gives the default
PromptDefaultYes(answer, default) ==
    IF answer = "" THEN TRUE ELSE answer = "y"

PromptYN(answer, default) ==
    IF answer = "" THEN default = "y" ELSE answer = "y"

\* requests' Response.ok: no 4xx or 5xx status
ResponseOkAlways(status) == TRUE

ResponseOk(status) == ~(status >= 400 /\ status < 600)

\* the release asset requested (line 172)
Url(filename) == <<"https://github.com/microsoft/NubesGen/releases/download",
                   CONST_NUBEGEN_CLI_VERSION, filename>>

(***************************************************************************)
(* Exceptions.                                                             *)
(***************************************************************************)
\* (the messages are the code's, without their backquotes)
NoError == [type |-> "", msg |-> ""]

E_NotExecuted ==
    [type |-> "ValueError", msg |-> "az aks nubesgen was NOT executed successfully"]

E_BinaryCheck ==
    [type |-> "ValueError", msg |-> "Binary check was NOT executed successfully"]

E_InvalidBinaryPath ==
    [type |-> "ValueError", msg |-> "The given Binary path was null or empty"]

E_MissingDependency ==
    [type |-> "ValueError", msg |-> "az aks nubesgen requires the missing dependency"]

E_KeyError == [type |-> "KeyError", msg |-> "PATH"]

E_IndexError == [type |-> "IndexError", msg |-> "list index out of range"]

E_OSError == [type |-> "OSError", msg |-> "exec failed"]

(***************************************************************************)
(* The run of aks_nubesgen (lines 23-41), step by step.                    *)
(***************************************************************************)
\* an exception propagates to the caller of aks_nubesgen
Raise(e) ==
    /\ pc' = "done"
    /\ result' = "raised"
    /\ error' = e

Inputs == <<download_path, kwargs, env_PATH, system, disk0>>

Disk == <<dirs, files>>

\* the argument of the _download_binary call at line 87
ExplicitTargetIgnored(path) == DefaultDownloadPath

ExplicitTarget(path) == path.s

\* _binary_pre_check, lines 84-89: an explicit download path skips the search
BinaryPreCheck ==
    /\ pc = "start"
    /\ IF Truthy(download_path)
       THEN /\ pc' = "download"
            /\ dl_arg' = ExplicitTarget(download_path)
       ELSE /\ pc' = "search"
            /\ dl_arg' = dl_arg
    /\ UNCHANGED <<Inputs, Disk, nubesgen_binary_path, file_path, arguments,
                   run_successful, result, error, searches, versionRuns,
                   prompts, http, downloaded, popen, exit_codes>>

\* _get_existing_path (lines 133-150), called at line 90, and the branch of
\* line 92 on its result
GetExistingPath ==
    /\ pc = "search"
    /\ LET filename == GetFilename(system)
           paths == GetPotentialPaths
       IN  IF filename = ""
           THEN /\ nubesgen_binary_path' = None
                /\ searches' = searches
                /\ pc' = "prompt_missing"
                /\ UNCHANGED <<result, error>>
           ELSE IF paths.isNone
           THEN /\ Raise(E_KeyError)
                /\ UNCHANGED <<nubesgen_binary_path, searches>>
           ELSE IF paths.s = <<>>
           THEN /\ nubesgen_binary_path' = None
                /\ searches' = searches
                /\ pc' = "prompt_missing"
                /\ UNCHANGED <<result, error>>
           ELSE LET found == FirstExisting(paths.s, filename)
                IN  /\ nubesgen_binary_path' = found
                    /\ searches' = Append(searches, paths.s)
                    /\ pc' = IF Truthy(found) THEN "version" ELSE "prompt_missing"
                    /\ UNCHANGED <<result, error>>
    /\ UNCHANGED <<Inputs, Disk, dl_arg, file_path, arguments, run_successful,
                   versionRuns, prompts, http, downloaded, popen, exit_codes>>

\* what the `version` child may print in a run: current, stale, nothing
VersionStdouts ==
    { <<":", " ", "v", "1", "\n">>, <<":", " ", "v", "0", "\n">>, <<>> }

VersionStderrs == { <<>>, <<"e">> }

\* _is_latest_version (lines 112-120) on the found binary, and the branch of
\* line 93 on its result
IsLatestVersionRun(stdouts) ==
    /\ pc = "version"
    /\ LET binary_path == nubesgen_binary_path.s
       IN  IF ~Executable(binary_path)
           THEN /\ Raise(E_OSError)
                /\ versionRuns' = Append(versionRuns,
                       [path |-> binary_path, stdout |-> <<>>, stderr |-> <<>>,
                        result |-> "OSError"])
                /\ UNCHANGED file_path
           ELSE \E stdout \in stdouts, stderr \in VersionStderrs :
                LET r == IsLatestVersion(stdout, stderr)
                IN  /\ versionRuns' = Append(versionRuns,
                           [path |-> binary_path, stdout |-> stdout,
                            stderr |-> stderr, result |-> r])
                    /\ IF r = "IndexError"
                       THEN Raise(E_IndexError) /\ UNCHANGED file_path
                       ELSE IF r = "True"
                       THEN /\ file_path' = nubesgen_binary_path
                            /\ pc' = "pre_run"
                            /\ UNCHANGED <<result, error>>
                       ELSE /\ pc' = "prompt_stale"
                            /\ UNCHANGED <<file_path, result, error>>
    /\ UNCHANGED <<Inputs, Disk, nubesgen_binary_path, dl_arg, arguments,
                   run_successful, searches, prompts, http, downloaded, popen,
                   exit_codes>>

IsLatestVersionStep == IsLatestVersionRun(VersionStdouts)

\* what the user may type at a prompt; "" is no input
Answers == {"y", "n", ""}

\* the value _binary_pre_check returns when the update is declined (line 100)
DeclinedUpdateNone(path) == None

DeclinedUpdate(path) == path

\* lines 96-100: the binary is stale, the user is asked whether to update
PromptStale ==
    /\ pc = "prompt_stale"
    /\ \E answer \in Answers :
        LET response == PromptYN(answer, "n")
        IN  /\ prompts' = Append(prompts,
                   [msg |-> "newer version", answer |-> answer, response |-> response])
            /\ IF response
               THEN /\ pc' = "download"
                    /\ dl_arg' = DefaultDownloadPath
                    /\ UNCHANGED file_path
               ELSE /\ pc' = "pre_run"
                    /\ file_path' = DeclinedUpdate(nubesgen_binary_path)
                    /\ UNCHANGED dl_arg
    /\ UNCHANGED <<Inputs, Disk, nubesgen_binary_path, arguments, run_successful,
                   result, error, searches, versionRuns, http, downloaded, popen,
                   exit_codes>>

\* lines 101-108: no binary was found, the user is asked whether to download
PromptMissing ==
    /\ pc = "prompt_missing"
    /\ \E answer \in Answers :
        LET response == PromptYN(answer, "n")
        IN  /\ prompts' = Append(prompts,
                   [msg |-> "not found", answer |-> answer, response |-> response])
            /\ IF ~response
               THEN Raise(E_MissingDependency) /\ UNCHANGED dl_arg
               ELSE /\ pc' = "download"
                    /\ dl_arg' = DefaultDownloadPath
                    /\ UNCHANGED <<result, error>>
    /\ UNCHANGED <<Inputs, Disk, nubesgen_binary_path, file_path, arguments,
                   run_successful, searches, versionRuns, http, downloaded,
                   popen, exit_codes>>

\* the statuses the release server may answer with
Statuses == {200, 404, 503}

\* what _download_binary returns after a non-success status (line 193)
DownloadFailureReturnsPath == Str(Append(Expanduser(dl_arg), GetFilename(system)))

DownloadFailure == None

\* _download_binary (lines 165-193); its result is what _binary_pre_check
\* returns (lines 87, 99, 108)
DownloadBinary ==
    /\ pc = "download"
    /\ LET target == Expanduser(dl_arg)
           filename == GetFilename(system)
           full_path == Append(target, filename)
       IN  IF filename = ""
           THEN /\ file_path' = None
                /\ UNCHANGED <<Disk, http, downloaded>>
           ELSE \E status \in Statuses :
                /\ http' = Append(http, [url |-> Url(filename), status |-> status])
                /\ IF ResponseOk(status)
                   THEN /\ dirs' = IF Exists(target) THEN dirs
                                   ELSE dirs \cup Ancestors(target)
                        /\ files' = [p \in DOMAIN files \cup {full_path} |->
                                       IF p = full_path
                                       THEN [content |-> "release", mode |-> "0o755"]
                                       ELSE files[p]]
                        /\ file_path' = Str(full_path)
                        /\ downloaded' = downloaded \cup {full_path}
                   ELSE /\ file_path' = DownloadFailure
                        /\ UNCHANGED <<Disk, downloaded>>
    /\ pc' = "pre_run"
    /\ UNCHANGED <<Inputs, nubesgen_binary_path, dl_arg, arguments,
                   run_successful, result, error, searches, versionRuns,
                   prompts, popen, exit_codes>>

\* _pre_run, lines 47-50
PreRun ==
    /\ pc = "pre_run"
    /\ IF ~Truthy(file_path)
       THEN Raise(E_BinaryCheck) /\ UNCHANGED arguments
       ELSE /\ arguments' = BuildArgs(kwargs, <<>>)
            /\ pc' = "run"
            /\ UNCHANGED <<result, error>>
    /\ UNCHANGED <<Inputs, Disk, nubesgen_binary_path, dl_arg, file_path,
                   run_successful, searches, versionRuns, prompts, http,
                   downloaded, popen, exit_codes>>

\* the exit codes of the `create` child
ExitCodes == {0, 1, 2}

\* line 63
ExitOkNonNegative(exit_code) == exit_code >= 0

ExitOk(exit_code) == exit_code = 0

\* _run (lines 55-63), called at line 37
Run ==
    /\ pc = "run"
    /\ IF file_path.isNone
       THEN /\ Raise(E_InvalidBinaryPath)
            /\ UNCHANGED <<popen, exit_codes, run_successful>>
       ELSE /\ popen' = Append(popen,
                   [bin |-> file_path.s, command |-> "create", args |-> arguments])
            /\ IF ~Executable(file_path.s)
               THEN /\ Raise(E_OSError)
                    /\ UNCHANGED <<exit_codes, run_successful>>
               ELSE \E exit_code \in ExitCodes :
                    /\ exit_codes' = Append(exit_codes, exit_code)
                    /\ run_successful' = ExitOk(exit_code)
                    /\ pc' = "finish"
                    /\ UNCHANGED <<result, error>>
    /\ UNCHANGED <<Inputs, Disk, nubesgen_binary_path, dl_arg, file_path,
                   arguments, searches, versionRuns, prompts, http, downloaded>>

\* aks_nubesgen, lines 38-41, with _run_finish (lines 67-69)
Finish ==
    /\ pc = "finish"
    /\ IF run_successful
       THEN /\ pc' = "done"
            /\ result' = "returned"
            /\ error' = error
       ELSE Raise(E_NotExecuted)
    /\ UNCHANGED <<Inputs, Disk, nubesgen_binary_path, dl_arg, file_path,
                   arguments, run_successful, searches, versionRuns, prompts,
                   http, downloaded, popen, exit_codes>>

(***************************************************************************)
(* Initial states: the inputs of a run and the filesystem it starts on.    *)
(***************************************************************************)
UsrBin == <<"usr", "bin">>

OptNg == <<"opt", "ng">>

DownloadPaths == {None, Str(<<>>), Str(<<"~", "dl">>), Str(OptNg)}

\* PATH: unset, one entry, two entries
EnvPaths == {None, Str(<<UsrBin>>), Str(<<OptNg, UsrBin>>)}

Systems == {"Linux", "Darwin"}

BaseDirs == {<<"home">>, Home, <<"usr">>, UsrBin}

OldFile(mode) == [content |-> "old", mode |-> mode]

\* the filesystems a run may start on, for a platform filename
Disks(fn) ==
    LET onPath == Append(UsrBin, fn)
        inHome == Append(Home \o <<".nubesgen">>, fn)
        inOpt == Append(OptNg, fn)
        homeDirs == BaseDirs \cup {Home \o <<".nubesgen">>}
        optDirs == BaseDirs \cup {<<"opt">>, OptNg}
    IN  { [dirs |-> BaseDirs, files |-> <<>>],
          [dirs |-> BaseDirs, files |-> (onPath :> OldFile("0o755"))],
          [dirs |-> BaseDirs, files |-> (onPath :> OldFile("0o644"))],
          [dirs |-> homeDirs, files |-> (inHome :> OldFile("0o755"))],
          [dirs |-> optDirs, files |-> (inOpt :> OldFile("0o755"))],
          [dirs |-> homeDirs,
           files |-> (onPath :> OldFile("0o755")) @@ (inHome :> OldFile("0o755"))] }

K_destination == <<"d", "e", "s", "t", "i", "n", "a", "t", "i", "o", "n">>

K_app_name == <<"a", "p", "p", "_", "n", "a", "m", "e">>

K_language == <<"l", "a", "n", "g", "u", "a", "g", "e">>

K_create_config == <<"c", "r", "e", "a", "t", "e", "_", "c", "o", "n", "f", "i", "g">>

K_dockerfile_only ==
    <<"d", "o", "c", "k", "e", "r", "f", "i", "l", "e", "_", "o", "n", "l", "y">>

K_deployment_only ==
    <<"d", "e", "p", "l", "o", "y", "m", "e", "n", "t", "_", "o", "n", "l", "y">>

\* the keyword options aks_nubesgen passes to _pre_run (lines 30-36)
Request(dest, app, lang, config, dockerfile, deployment) ==
    << <<K_destination, dest>>, <<K_app_name, app>>, <<K_language, lang>>,
       <<K_create_config, config>>, <<K_dockerfile_only, dockerfile>>,
       <<K_deployment_only, deployment>> >>

Requests ==
    { Request(None, None, None, None, None, None),
      Request(Str(<<".">>), Str(<<"a">>), Str(<<>>), None, None, Str(<<"1">>)),
      Request(Str(<<".">>), Str(<<"a">>), Str(<<"j">>), Str(<<"c">>),
              Str(<<"1">>), Str(<<>>)) }

\* everything a run has not done yet
Fresh ==
    /\ nubesgen_binary_path = None
    /\ dl_arg = <<>>
    /\ file_path = None
    /\ arguments = <<>>
    /\ run_successful = FALSE
    /\ result = "running"
    /\ error = NoError
    /\ searches = <<>>
    /\ versionRuns = <<>>
    /\ prompts = <<>>
    /\ http = <<>>
    /\ downloaded = {}
    /\ popen = <<>>
    /\ exit_codes = <<>>

\* aks_nubesgen is entered
Init ==
    /\ download_path \in DownloadPaths
    /\ kwargs \in Requests
    /\ env_PATH \in EnvPaths
    /\ system \in Systems
    /\ disk0 \in Disks(GetFilename(system))
    /\ dirs = disk0.dirs
    /\ files = disk0.files
    /\ pc = "start"
    /\ Fresh

Next ==
    \/ BinaryPreCheck
    \/ GetExistingPath
    \/ IsLatestVersionStep
    \/ PromptStale
    \/ PromptMissing
    \/ DownloadBinary
    \/ PreRun
    \/ Run
    \/ Finish

Spec == Init /\ [][Next]_vars

(***************************************************************************)
(* _is_latest_version on every bounded output of the `version` child: the  *)
(* run has found an executable binary on PATH and is about to check it.    *)
(***************************************************************************)
Chars == {"v", "1", " ", "\t", "\n"}

InitVersion ==
    /\ download_path = None
    /\ kwargs \in Requests
    /\ env_PATH = Str(<<UsrBin>>)
    /\ system \in Systems
    /\ disk0 = [dirs |-> BaseDirs,
                files |-> (Append(UsrBin, GetFilename(system)) :> OldFile("0o755"))]
    /\ dirs = disk0.dirs
    /\ files = disk0.files
    /\ pc = "version"
    /\ nubesgen_binary_path = Str(Append(UsrBin, GetFilename(system)))
    /\ dl_arg = <<>>
    /\ file_path = None
    /\ arguments = <<>>
    /\ run_successful = FALSE
    /\ result = "running"
    /\ error = NoError
    /\ searches = << <<UsrBin, Home \o <<".nubesgen">> >> >>
    /\ versionRuns = <<>>
    /\ prompts = <<>>
    /\ http = <<>>
    /\ downloaded = {}
    /\ popen = <<>>
    /\ exit_codes = <<>>

NextVersion == IsLatestVersionRun(SeqsUpTo(Chars, MaxOut))

SpecVersion == InitVersion /\ [][NextVersion]_vars

(***************************************************************************)
(* _build_args on every bounded mapping: _pre_run has a binary path and    *)
(* builds the argument list from its keyword options.                      *)
(***************************************************************************)
Keys == { <<"a">>, <<"b">>, <<"c">>, <<"d", "_", "_", "e", "_">> }

Values == { None, Str(<<>>), Str(<<"1">>), Str(<<"x">>) }

\* a dict in iteration order: pairs with distinct keys
Mappings ==
    { m \in SeqsUpTo(Keys \X Values, MaxPairs) :
        \A i, j \in 1..Len(m) : i # j => m[i][1] # m[j][1] }

InitBuildArgs ==
    /\ download_path = None
    /\ kwargs \in Mappings
    /\ env_PATH = Str(<<UsrBin>>)
    /\ system = "Linux"
    /\ disk0 = [dirs |-> BaseDirs,
                files |-> (Append(UsrBin, GetFilename(system)) :> OldFile("0o755"))]
    /\ dirs = disk0.dirs
    /\ files = disk0.files
    /\ pc = "pre_run"
    /\ nubesgen_binary_path = Str(Append(UsrBin, GetFilename(system)))
    /\ dl_arg = <<>>
    /\ file_path = nubesgen_binary_path
    /\ arguments = <<>>
    /\ run_successful = FALSE
    /\ result = "running"
    /\ error = NoError
    /\ searches = << <<UsrBin, Home \o <<".nubesgen">> >> >>
    /\ versionRuns = << [path |-> nubesgen_binary_path.s,
                         stdout |-> <<":", " ", "v", "1", "\n">>,
                         stderr |-> <<>>, result |-> "True"] >>
    /\ prompts = <<>>
    /\ http = <<>>
    /\ downloaded = {}
    /\ popen = <<>>
    /\ exit_codes = <<>>

NextBuildArgs == PreRun

SpecBuildArgs == InitBuildArgs /\ [][NextBuildArgs]_vars

(***************************************************************************)
(* _run called on its own, with any binary path.                           *)
(***************************************************************************)
BinaryPaths(fn) ==
    {None, Str(<<>>), Str(Append(UsrBin, fn)), Str(Append(OptNg, fn))}

InitRun ==
    /\ download_path = None
    /\ kwargs \in Requests
    /\ env_PATH \in EnvPaths
    /\ system \in Systems
    /\ disk0 \in Disks(GetFilename(system))
    /\ dirs = disk0.dirs
    /\ files = disk0.files
    /\ pc = "run"
    /\ nubesgen_binary_path = None
    /\ dl_arg = <<>>
    /\ file_path \in BinaryPaths(GetFilename(system))
    /\ arguments = BuildArgs(kwargs, <<>>)
    /\ run_successful = FALSE
    /\ result = "running"
    /\ error = NoError
    /\ searches = <<>>
    /\ versionRuns = <<>>
    /\ prompts = <<>>
    /\ http = <<>>
    /\ downloaded = {}
    /\ popen = <<>>
    /\ exit_codes = <<>>

NextRun == Run \/ Finish

SpecRun == InitRun /\ [][NextRun]_vars

(***************************************************************************)
(* Properties.                                                             *)
(***************************************************************************)
\* the platform filename and the default download target of this run
Fn == GetFilename(system)

DefaultFull == Append(Home \o <<".nubesgen">>, Fn)

\* no candidate directory held the platform binary when the run started
NoCandidateHasBinary ==
    /\ ~env_PATH.isNone
    /\ \A i \in 1..Len(env_PATH.s) :
           LET p == Append(env_PATH.s[i], Fn)
           IN  p \notin disk0.dirs /\ p \notin DOMAIN disk0.files
    /\ DefaultFull \notin disk0.dirs
    /\ DefaultFull \notin DOMAIN disk0.files

DeclinedMissing ==
    /\ ~Truthy(download_path)
    /\ NoCandidateHasBinary
    /\ Len(prompts) >= 1
    /\ prompts[1].answer \in {"n", ""}

\* C1: with no explicit download path, no binary in any candidate directory
\* and the download prompt answered no (or left empty), the run has ended
\* with the missing-dependency error, and it has issued no HTTP request,
\* written nothing to the filesystem and spawned no `create` child.
C1_DeclinedDownloadFails ==
    DeclinedMissing =>
        /\ pc = "done"
        /\ result = "raised"
        /\ error = E_MissingDependency
        /\ Len(prompts) = 1
        /\ prompts[1].msg = "not found"
        /\ http = <<>>
        /\ dirs = disk0.dirs
        /\ files = disk0.files
        /\ popen = <<>>

C1_Witness ==
    /\ DeclinedMissing
    /\ prompts[1].answer = ""
    /\ pc = "done"

\* C2: every `create` child is spawned with a binary path that this run
\* already passed to `<path> version` or got back from a successful download.
C2_ExecutedPathValidated ==
    \A i \in 1..Len(popen) :
        popen[i].command = "create" =>
            \/ \E j \in 1..Len(versionRuns) : versionRuns[j].path = popen[i].bin
            \/ popen[i].bin \in downloaded

C2_Witness ==
    /\ Len(popen) = 1
    /\ popen[1].bin \notin downloaded
    /\ Len(versionRuns) = 1
    /\ versionRuns[1].result = "False"

\* C3: the run returns normally exactly when a binary path was resolved and
\* the one `create` child exited with code zero; a run that ended otherwise
\* raised an error; `create` is spawned at most once.
C3_ReturnsIffExitZero ==
    /\ Len(popen) <= 1
    /\ Len(exit_codes) <= Len(popen)
    /\ pc = "done" =>
          /\ result \in {"returned", "raised"}
          /\ result = "returned" <=>
                /\ Truthy(file_path)
                /\ Len(popen) = 1
                /\ popen[1].bin = file_path.s
                /\ Len(exit_codes) = 1
                /\ exit_codes[1] = 0
          /\ result = "returned" => error = NoError
          /\ result = "raised" => error # NoError

C3_Witness ==
    /\ pc = "done"
    /\ result = "raised"
    /\ Len(exit_codes) = 1
    /\ exit_codes[1] = 2

\* C4: with an explicit, non-empty download directory there is no directory
\* search, no version check and no prompt; one download is made, into that
\* directory: on success the resolved path is the file in that directory,
\* on failure nothing is resolved, no `create` child is spawned and the run
\* raises.
C4_ExplicitPathDownloadsDirectly ==
    Truthy(download_path) =>
        LET target == Append(Expanduser(download_path.s), Fn)
        IN  /\ searches = <<>>
            /\ versionRuns = <<>>
            /\ prompts = <<>>
            /\ pc \in {"start", "download"} => http = <<>>
            /\ pc \notin {"start", "download"} =>
                  /\ Len(http) = 1
                  /\ http[1].status < 400 =>
                        /\ file_path = Str(target)
                        /\ target \in DOMAIN files
                        /\ files[target].content = "release"
                        /\ downloaded = {target}
                  /\ http[1].status >= 400 =>
                        /\ file_path = None
                        /\ popen = <<>>
                        /\ pc \in {"pre_run", "done"}
                        /\ pc = "done" => (result = "raised" /\ error = E_BinaryCheck)

C4_Witness ==
    /\ download_path = Str(<<"~", "dl">>)
    /\ pc = "done"
    /\ result = "returned"
    /\ popen[1].bin = <<"home", "u", "dl", Fn>>

\* the binary found locally was version-checked and reported stale
FoundStale ==
    /\ Len(versionRuns) = 1
    /\ versionRuns[1].result = "False"
    /\ versionRuns[1].path = nubesgen_binary_path.s

\* the parts of C5 about the prompt and a declined update
C5_PromptAndDecline ==
    /\ pc = "prompt_stale" \/ Len(prompts) = 1
    /\ Len(prompts) = 1 =>
          /\ prompts[1].msg = "newer version"
          /\ prompts[1].answer \in {"n", ""} =>
                /\ file_path = nubesgen_binary_path
                /\ http = <<>>
                /\ \A i \in 1..Len(popen) : popen[i].bin = versionRuns[1].path

\* C5 as claimed: a stale binary leads to the prompt; after a yes the
\* replacement is fetched and the new, downloaded path is returned; after a
\* no the stale path is returned, no HTTP request is issued and the stale
\* binary is the one executed.
C5_Original ==
    FoundStale =>
        /\ C5_PromptAndDecline
        /\ (Len(prompts) = 1 /\ prompts[1].answer = "y" /\ pc # "download") =>
              /\ Len(http) = 1
              /\ file_path = Str(DefaultFull)
              /\ DefaultFull \in downloaded

\* C5 as amended: after a yes one download into the default directory is
\* attempted and its result is returned: the downloaded path when the fetch
\* succeeds, nothing when it fails, and then the run raises without spawning
\* `create`, although the stale binary is still there.
C5_StaleBinary ==
    FoundStale =>
        /\ C5_PromptAndDecline
        /\ (Len(prompts) = 1 /\ prompts[1].answer = "y" /\ pc # "download") =>
              /\ Len(http) = 1
              /\ http[1].status < 400 =>
                    /\ file_path = Str(DefaultFull)
                    /\ DefaultFull \in downloaded
              /\ http[1].status >= 400 =>
                    /\ file_path = None
                    /\ popen = <<>>
                    /\ pc \in {"pre_run", "done"}
                    /\ pc = "done" => (result = "raised" /\ error = E_BinaryCheck)

C5_Witness ==
    /\ FoundStale
    /\ Len(prompts) = 1
    /\ prompts[1].answer = "n"
    /\ Len(popen) = 1
    /\ popen[1].bin = versionRuns[1].path
    /\ pc = "done"

\* C6: _run with an empty or absent binary path fails with the
\* invalid-binary-path error before any child process is spawned.
C6_EmptyPathRejected ==
    (~Truthy(file_path) /\ pc # "run") =>
        /\ result = "raised"
        /\ error = E_InvalidBinaryPath
        /\ popen = <<>>

\* C7: with PATH unset the search does not abort the run: nothing is found
\* and the run goes on to the download prompt.
C7_UnsetPathContinues ==
    (env_PATH.isNone /\ ~Truthy(download_path) /\ pc \notin {"start", "search"}) =>
        /\ error # E_KeyError
        /\ nubesgen_binary_path = None
        /\ pc = "prompt_missing" \/ Len(prompts) >= 1

\* C8: a call of _download_binary issues exactly one HTTP GET; after a
\* non-success status it returns None and leaves directories, files and
\* their modes as they were.
C8_OneGetNoWriteOnFailure ==
    [][ pc = "download" =>
          /\ Len(http') = Len(http) + 1
          /\ http'[Len(http')].url = Url(Fn)
          /\ http'[Len(http')].status >= 400 =>
                /\ file_path' = None
                /\ dirs' = dirs
                /\ files' = files ]_vars

C8_Witness ==
    /\ Len(http) = 1
    /\ http[1].status = 404
    /\ download_path = Str(OptNg)
    /\ Append(OptNg, Fn) \in DOMAIN files
    /\ pc = "pre_run"

\* the token of a pair, stated position by position
IsTokenOf(tok, key, val) ==
    /\ Len(tok) = Len(key) + Len(val) + 3
    /\ tok[1] = "-"
    /\ tok[2] = "-"
    /\ \A k \in 1..Len(key) :
           tok[2 + k] = (IF key[k] = "_" THEN "-" ELSE key[k])
    /\ tok[Len(key) + 3] = "="
    /\ \A k \in 1..Len(val) : tok[Len(key) + 3 + k] = val[k]

\* the pairs of kwargs whose value is neither None nor empty
Kept == {i \in 1..Len(kwargs) : ~kwargs[i][2].isNone /\ kwargs[i][2].s # <<>>}

\* C9: the argument list is exactly the tokens --<key, _ as ->=<value> of
\* the pairs with a truthy value, in the mapping's order; pairs with an
\* empty or absent value give no token.
C9_BuildArgs ==
    pc = "run" =>
        /\ Len(arguments) = Cardinality(Kept)
        /\ \A i \in Kept :
               IsTokenOf(arguments[Cardinality({j \in Kept : j <= i})],
                         kwargs[i][1], kwargs[i][2].s)

C9_Witness ==
    /\ pc = "run"
    /\ kwargs = << <<<<"a">>, Str(<<"1">>)>>, <<<<"b">>, Str(<<>>)>>,
                   <<<<"c">>, Str(<<"x">>)>> >>
    /\ arguments = << <<"-", "-", "a", "=", "1">>, <<"-", "-", "c", "=", "x">> >>

\* s[i..j] is the last whitespace-separated token of the first line of s
IsLastTokenOfFirstLine(s, i, j) ==
    /\ i <= j
    /\ \A k \in 1..j : s[k] # "\n"
    /\ \A k \in i..j : s[k] \notin {" ", "\t", "\r"}
    /\ i = 1 \/ s[i - 1] \in {" ", "\t", "\r"}
    /\ \A k \in (j + 1)..Len(s) :
           (\A m \in (j + 1)..k : s[m] # "\n") => s[k] \in {" ", "\t", "\r"}
    /\ j = Len(s) \/ s[j + 1] \in {" ", "\t", "\r", "\n"}

====
